---- MODULE Spec2Model ----
(***************************************************************************)
(* Model of the NSF ingestion pipeline of lotus-notes-converter            *)
(* (src/src/lotus_notes_converter/parser.py): NSFFileHeader,               *)
(* NSFDatabaseHeader, NSFNote._parse_items, NSFParser._parse_notes and     *)
(* NSFParser._build_application_model, driven by NSFParser.parse_file.     *)
(*                                                                         *)
(* Byte strings are kept run-length encoded: a value of Python type bytes  *)
(* is a sequence of runs [b |-> byte, n |-> count], count > 0, adjacent    *)
(* runs holding different bytes.  Python str values are sequences of code  *)
(* points.  The file object is the pair (stream, pos): the bytes not yet   *)
(* read and the number of bytes consumed.                                  *)
(***************************************************************************)
EXTENDS Integers, Sequences, FiniteSets, TLC

VARIABLES fixture, stream, pos, pc, file_header, db_header, notes, note_id,
          app, result, clock, history

vars == <<fixture, stream, pos, pc, file_header, db_header, notes, note_id,
          app, result, clock, history>>

\* Python's None
None == [none |-> TRUE]

Min(a, b) == IF a < b THEN a ELSE b

(***************************************************************************)
(* bytes                                                                   *)
(***************************************************************************)

\* one run of n copies of byte b (b'\x00' * n); empty when n = 0
Run(b, n) == IF n <= 0 THEN <<>> ELSE <<[b |-> b, n |-> n]>>

\* concatenation of two byte strings (a + b)
BCat(A, B) ==
    IF A = <<>> THEN B
    ELSE IF B = <<>> THEN A
    ELSE IF A[Len(A)].b = B[1].b
         THEN SubSeq(A, 1, Len(A) - 1)
              \o <<[b |-> B[1].b, n |-> A[Len(A)].n + B[1].n]>>
              \o SubSeq(B, 2, Len(B))
         ELSE A \o B

RECURSIVE BLenRange(_, _, _)
BLenRange(B, lo, hi) ==
    IF lo > hi THEN 0
    ELSE IF lo = hi THEN B[lo].n
    ELSE LET mid == (lo + hi) \div 2
         IN  BLenRange(B, lo, mid) + BLenRange(B, mid + 1, hi)

\* len(data)
BLen(B) == BLenRange(B, 1, Len(B))

RECURSIVE BTakeFrom(_, _, _)
BTakeFrom(B, i, k) ==
    IF k <= 0 \/ i > Len(B) THEN <<>>
    ELSE IF B[i].n >= k THEN <<[b |-> B[i].b, n |-> k]>>
    ELSE <<B[i]>> \o BTakeFrom(B, i + 1, k - B[i].n)

\* data[:k], and the bytes returned by stream.read(k)
BTake(B, k) == BTakeFrom(B, 1, k)

RECURSIVE BDropFrom(_, _, _)
BDropFrom(B, i, k) ==
    IF i > Len(B) THEN <<>>
    ELSE IF k <= 0 THEN SubSeq(B, i, Len(B))
    ELSE IF B[i].n > k
         THEN <<[b |-> B[i].b, n |-> B[i].n - k]>> \o SubSeq(B, i + 1, Len(B))
    ELSE BDropFrom(B, i + 1, k - B[i].n)

\* data[k:], and what stream.read(k) leaves unread
BDrop(B, k) == BDropFrom(B, 1, k)

\* data[i:j] for 0 <= i
BSlice(B, i, j) == BTake(BDrop(B, i), j - i)

RECURSIVE BAtFrom(_, _, _)
BAtFrom(B, i, k) ==
    IF k < B[i].n THEN B[i].b ELSE BAtFrom(B, i + 1, k - B[i].n)

\* data[k] for 0 <= k < len(data)
BAt(B, k) == BAtFrom(B, 1, k)

RECURSIVE BCatRange(_, _, _)
BCatRange(parts, lo, hi) ==
    IF lo > hi THEN <<>>
    ELSE IF lo = hi THEN parts[lo]
    ELSE LET mid == (lo + hi) \div 2
         IN  BCat(BCatRange(parts, lo, mid), BCatRange(parts, mid + 1, hi))

\* b''.join(parts)
BCatAll(parts) == BCatRange(parts, 1, Len(parts))

\* bytes(s): the byte string holding the bytes of the sequence s
Lit(s) == BCatAll([k \in 1..Len(s) |-> Run(s[k], 1)])

RECURSIVE ExpandRange(_, _, _)
ExpandRange(B, lo, hi) ==
    IF lo > hi THEN <<>>
    ELSE IF lo = hi THEN [k \in 1..B[lo].n |-> B[lo].b]
    ELSE LET mid == (lo + hi) \div 2
         IN  ExpandRange(B, lo, mid) \o ExpandRange(B, mid + 1, hi)

\* list(data): the bytes of a byte string, one element per byte
Expand(B) == ExpandRange(B, 1, Len(B))

\* struct.pack('<H', v)
Pack16(v) == Lit(<<v % 256, v \div 256>>)

\* struct.pack('<L', v)
Pack32(v) == Lit(<<v % 256, (v \div 256) % 256, (v \div 65536) % 256, v \div 16777216>>)

\* a big-endian reading of the same two bytes
Unpack16BigEndian(B, k) == 256 * BAt(B, k) + BAt(B, k + 1)

\* struct.unpack('<H', data[k:k+2])[0]
Unpack16(B, k) == BAt(B, k) + 256 * BAt(B, k + 1)

\* struct.unpack('<L', data[k:k+4])[0]
Unpack32(B, k) ==
    BAt(B, k) + 256 * BAt(B, k + 1) + 65536 * BAt(B, k + 2) + 16777216 * BAt(B, k + 3)

(***************************************************************************)
(* text                                                                    *)
(***************************************************************************)

RECURSIVE Digits(_)
\* str(n) for n >= 0
Digits(n) == IF n < 10 THEN <<48 + n>> ELSE Digits(n \div 10) \o <<48 + (n % 10)>>

\* a continuation byte of UTF-8
IsCont(b) == b >= 128 /\ b <= 191

\* the number of bytes of the well-formed UTF-8 sequence that starts at
\* s[i], or 0 when none starts there
Utf8SeqLen(s, i) ==
    LET b0 == s[i]
        has(k) == i + k <= Len(s)
    IN  IF b0 < 128 THEN 1
        ELSE IF b0 >= 194 /\ b0 <= 223
             THEN IF has(1) /\ IsCont(s[i + 1]) THEN 2 ELSE 0
        ELSE IF b0 >= 224 /\ b0 <= 239
             THEN IF has(2) /\ IsCont(s[i + 1]) /\ IsCont(s[i + 2])
                     /\ (b0 = 224 => s[i + 1] >= 160)
                     /\ (b0 = 237 => s[i + 1] <= 159)
                  THEN 3 ELSE 0
        ELSE IF b0 >= 240 /\ b0 <= 244
             THEN IF has(3) /\ IsCont(s[i + 1]) /\ IsCont(s[i + 2]) /\ IsCont(s[i + 3])
                     /\ (b0 = 240 => s[i + 1] >= 144)
                     /\ (b0 = 244 => s[i + 1] <= 143)
                  THEN 4 ELSE 0
        ELSE 0

\* the code point of the well-formed UTF-8 sequence of n bytes at s[i]
Utf8CodePoint(s, i, n) ==
    IF n = 1 THEN s[i]
    ELSE IF n = 2 THEN (s[i] - 192) * 64 + (s[i + 1] - 128)
    ELSE IF n = 3 THEN (s[i] - 224) * 4096 + (s[i + 1] - 128) * 64 + (s[i + 2] - 128)
    ELSE (s[i] - 240) * 262144 + (s[i + 1] - 128) * 4096
         + (s[i + 2] - 128) * 64 + (s[i + 3] - 128)

RECURSIVE Utf8IgnoreFrom(_, _)
Utf8IgnoreFrom(s, i) ==
    IF i > Len(s) THEN <<>>
    ELSE LET n == Utf8SeqLen(s, i)
         IN  IF n = 0 THEN Utf8IgnoreFrom(s, i + 1)
             ELSE <<Utf8CodePoint(s, i, n)>> \o Utf8IgnoreFrom(s, i + n)

\* bytes(s).decode('utf-8', errors='ignore'): ill-formed bytes are dropped
Utf8Ignore(s) == Utf8IgnoreFrom(s, 1)

\* bytes(s).split(b'\x00')[0]
SplitNul0(s) ==
    LET nuls == {k \in 1..Len(s) : s[k] = 0}
    IN  IF nuls = {} THEN s
        ELSE SubSeq(s, 1, (CHOOSE k \in nuls : \A j \in nuls : k <= j) - 1)

\* "form"
Str_form == <<102, 111, 114, 109>>
\* "view"
Str_view == <<118, 105, 101, 119>>
\* "form_name"
Str_form_name == <<102, 111, 114, 109, 95, 110, 97, 109, 101>>
\* "view_name"
Str_view_name == <<118, 105, 101, 119, 95, 110, 97, 109, 101>>
\* "Form_"
Str_Form_ == <<70, 111, 114, 109, 95>>
\* "View_"
Str_View_ == <<86, 105, 101, 119, 95>>
\* "DefaultForm"
Str_DefaultForm == <<68, 101, 102, 97, 117, 108, 116, 70, 111, 114, 109>>
\* "AllDocuments"
Str_AllDocuments == <<65, 108, 108, 68, 111, 99, 117, 109, 101, 110, 116, 115>>
\* "default_form"
Str_default_form == <<100, 101, 102, 97, 117, 108, 116, 95, 102, 111, 114, 109>>
\* "default_view"
Str_default_view == <<100, 101, 102, 97, 117, 108, 116, 95, 118, 105, 101, 119>>
\* "item_"
Str_item_ == <<105, 116, 101, 109, 95>>
\* "Converted from "
Str_ConvertedFrom == <<67, 111, 110, 118, 101, 114, 116, 101, 100, 32, 102, 114, 111, 109, 32>>
\* "Form extracted from note "
Str_FormExtracted ==
    <<70, 111, 114, 109, 32, 101, 120, 116, 114, 97, 99, 116, 101, 100, 32, 102, 114, 111, 109, 32, 110, 111, 116, 101, 32>>
\* "View extracted from note "
Str_ViewExtracted ==
    <<86, 105, 101, 119, 32, 101, 120, 116, 114, 97, 99, 116, 101, 100, 32, 102, 114, 111, 109, 32, 110, 111, 116, 101, 32>>
\* "Default form created during conversion"
Str_DefaultFormDescription ==
    <<68, 101, 102, 97, 117, 108, 116, 32, 102, 111, 114, 109, 32, 99, 114, 101, 97, 116, 101, 100, 32, 100, 117, 114, 105, 110, 103, 32, 99, 111, 110, 118, 101, 114, 115, 105, 111, 110>>
\* "Default view showing all documents"
Str_DefaultViewDescription ==
    <<68, 101, 102, 97, 117, 108, 116, 32, 118, 105, 101, 119, 32, 115, 104, 111, 119, 105, 110, 103, 32, 97, 108, 108, 32, 100, 111, 99, 117, 109, 101, 110, 116, 115>>
\* "Document "
Str_Document_ == <<68, 111, 99, 117, 109, 101, 110, 116, 32>>

\* s.lower() for ASCII text
Lower(s) == [k \in 1..Len(s) |-> IF s[k] >= 65 /\ s[k] <= 90 THEN s[k] + 32 ELSE s[k]]

\* needle in hay
Contains(hay, needle) ==
    \E k \in 0..(Len(hay) - Len(needle)) :
        \A j \in 1..Len(needle) : hay[k + j] = needle[j]

\* one hexadecimal digit, lower case
HexDigit(d) == IF d < 10 THEN 48 + d ELSE 87 + d

\* a repr writing every byte as a hexadecimal escape
ReprByteAlwaysHex(c, q) == <<92, 120, HexDigit(c \div 16), HexDigit(c % 16)>>

\* what bytes.__repr__ writes for one byte inside the quote character q
ReprByte(c, q) ==
    IF c = q \/ c = 92 THEN <<92, c>>
    ELSE IF c = 9 THEN <<92, 116>>
    ELSE IF c = 10 THEN <<92, 110>>
    ELSE IF c = 13 THEN <<92, 114>>
    ELSE IF c < 32 \/ c >= 127 THEN <<92, 120, HexDigit(c \div 16), HexDigit(c % 16)>>
    ELSE <<c>>

RECURSIVE ReprBytesFrom(_, _, _)
ReprBytesFrom(s, i, q) ==
    IF i > Len(s) THEN <<>> ELSE ReprByte(s[i], q) \o ReprBytesFrom(s, i + 1, q)

\* repr(data) of a bytes value: b'...' with escapes, or b"..." when the
\* value holds a single quote and no double quote
ReprBytes(B) ==
    LET s == Expand(B)
        q == IF (\E k \in 1..Len(s) : s[k] = 39) /\ ~(\E k \in 1..Len(s) : s[k] = 34)
             THEN 34 ELSE 39
    IN  <<98, q>> \o ReprBytesFrom(s, 1, q) \o <<q>>

RECURSIVE ReprItemsFrom(_, _)
ReprItemsFrom(items, i) ==
    IF i > Len(items) THEN <<>>
    ELSE (IF i > 1 THEN <<44, 32>> ELSE <<>>)
         \o <<39>> \o items[i].key \o <<39, 58, 32>> \o ReprBytes(items[i].value)
         \o ReprItemsFrom(items, i + 1)

\* str(note.items): the repr of the dict, {'item_1': b'...', ...}
StrItems(items) == <<123>> \o ReprItemsFrom(items, 1) \o <<125>>

(***************************************************************************)
(* LMBCSDecoder                                                            *)
(***************************************************************************)

\* a loop that skips a zero byte and goes on
RECURSIVE DecodeFromSkipNul(_, _)
DecodeFromSkipNul(s, i) ==
    IF i > Len(s) THEN <<>>
    ELSE IF s[i] = 0 THEN DecodeFromSkipNul(s, i + 1)
    ELSE IF s[i] < 128 THEN <<s[i]>> \o DecodeFromSkipNul(s, i + 1)
    ELSE Utf8Ignore(SubSeq(s, i, Len(s)))

RECURSIVE DecodeFrom(_, _)
DecodeFrom(s, i) ==
    IF i > Len(s) THEN <<>>
    ELSE IF s[i] = 0 THEN <<>>
    ELSE IF s[i] < 128 THEN <<s[i]>> \o DecodeFrom(s, i + 1)
    ELSE Utf8Ignore(SubSeq(s, i, Len(s)))

\* LMBCSDecoder.decode(data)
Decode(B) == DecodeFrom(Expand(B), 1)

(***************************************************************************)
(* NSFFileHeader, NSFDatabaseHeader                                        *)
(***************************************************************************)

\* the fixed signature b'\x1a\x00'
Signature == Lit(<<26, 0>>)

HeaderSize == 22

\* a header reader that compares only the first signature byte
NSFFileHeaderFirstByte(data) ==
    IF BLen(data) < HeaderSize THEN [error |-> "NSFParseError"]
    ELSE IF BAt(data, 0) # 26 THEN [error |-> "NSFParseError"]
    ELSE [error |-> "none",
          version |-> Unpack16(data, 2),
          info_buffer_size |-> Unpack16(data, 4),
          class_id |-> Unpack16(data, 6)]

\* a header reader that raises UnsupportedNSFVersion for versions other than 43
NSFFileHeaderVersionCheck(data) ==
    IF BLen(data) < HeaderSize THEN [error |-> "NSFParseError"]
    ELSE IF BSlice(data, 0, 2) # Signature THEN [error |-> "NSFParseError"]
    ELSE IF Unpack16(data, 2) # 43 THEN [error |-> "UnsupportedNSFVersion"]
    ELSE [error |-> "none",
          version |-> Unpack16(data, 2),
          info_buffer_size |-> Unpack16(data, 4),
          class_id |-> Unpack16(data, 6)]

\* NSFFileHeader(data): the header fields, or the error it raises
NSFFileHeader(data) ==
    IF BLen(data) < HeaderSize THEN [error |-> "NSFParseError"]
    ELSE IF BSlice(data, 0, 2) # Signature THEN [error |-> "NSFParseError"]
    ELSE [error |-> "none",
          version |-> Unpack16(data, 2),
          info_buffer_size |-> Unpack16(data, 4),
          class_id |-> Unpack16(data, 6)]

\* NSFDatabaseHeader(data).title after _parse_info_buffer
ParseInfoBuffer(info_buffer) ==
    IF BLen(info_buffer) > 128
    THEN LET title_start == 64
             title_end == title_start + 64
             title_bytes == BSlice(info_buffer, title_start, title_end)
         IN  Utf8Ignore(SplitNul0(Expand(title_bytes)))
    ELSE <<>>

\* NSFDatabaseHeader(data)
NSFDatabaseHeader(data) == [info_buffer |-> data, title |-> ParseInfoBuffer(data)]

(***************************************************************************)
(* NSFNote                                                                 *)
(***************************************************************************)

\* f"item_{item_type}"
ItemKey(item_type) == Str_item_ \o Digits(item_type)

\* a mapping that gets a new entry on every assignment
DictSetAlwaysAppends(items, key, value) == Append(items, [key |-> key, value |-> value])

\* items[key] = value on a dict kept in insertion order
DictSet(items, key, value) ==
    IF \E k \in 1..Len(items) : items[k].key = key
    THEN [k \in 1..Len(items) |->
            IF items[k].key = key THEN [key |-> key, value |-> value] ELSE items[k]]
    ELSE Append(items, [key |-> key, value |-> value])

RECURSIVE ParseItemsFrom(_, _, _)
ParseItemsFrom(data, offset, items) ==
    IF ~(offset < BLen(data) - 4) THEN items
    ELSE IF offset + 8 > BLen(data) THEN items
    ELSE LET item_type == Unpack16(data, offset)
             item_length == Unpack16(data, offset + 2)
         IN  IF item_length = 0 \/ offset + item_length > BLen(data) THEN items
             ELSE LET item_data == BSlice(data, offset + 4, offset + 4 + item_length)
                  IN  ParseItemsFrom(data, offset + 4 + item_length,
                                     DictSet(items, ItemKey(item_type), item_data))

\* NSFNote._parse_items: the item mapping of a payload
ParseItems(data) == ParseItemsFrom(data, 0, <<>>)

\* the iterations of the loop of NSFNote._parse_items that store an item: the
\* offset of the prefix, the two prefix fields and the bytes stored
RECURSIVE ItemScanFrom(_, _, _)
ItemScanFrom(data, offset, scanned) ==
    IF ~(offset < BLen(data) - 4) THEN scanned
    ELSE IF offset + 8 > BLen(data) THEN scanned
    ELSE LET item_type == Unpack16(data, offset)
             item_length == Unpack16(data, offset + 2)
         IN  IF item_length = 0 \/ offset + item_length > BLen(data) THEN scanned
             ELSE LET item_data == BSlice(data, offset + 4, offset + 4 + item_length)
                  IN  ItemScanFrom(data, offset + 4 + item_length,
                                   Append(scanned, [offset |-> offset, item_type |-> item_type,
                                                    item_length |-> item_length,
                                                    item_data |-> item_data]))

ItemScan(data) == ItemScanFrom(data, 0, <<>>)

\* NSFNote(note_id, note_class, data)
NSFNote(id, class, data) ==
    [note_id |-> id, note_class |-> class, data |-> data, items |-> ParseItems(data)]

\* NSFNote.get_text_item(item_name): the decoded text, or None
GetTextItem(note, item_name) ==
    IF \E k \in 1..Len(note.items) : note.items[k].key = item_name
    THEN LET k == CHOOSE k \in 1..Len(note.items) : note.items[k].key = item_name
         IN  [none |-> FALSE, text |-> Decode(note.items[k].value)]
    ELSE None

\* text or default, for an optional str
OrElse(text, default) == IF text.none \/ text.text = <<>> THEN default ELSE text.text

(***************************************************************************)
(* NSFParser: classification and model building                            *)
(***************************************************************************)

DesignClass == 1024

DocumentClass == 512

\* a form test that ignores the note class
IsFormNoteAnyClass(note) == Contains(Lower(StrItems(note.items)), Str_form)

\* NSFParser._is_form_note
IsFormNote(note) ==
    note.note_class = DesignClass /\ Contains(Lower(StrItems(note.items)), Str_form)

\* NSFParser._is_view_note
IsViewNote(note) ==
    note.note_class = DesignClass /\ Contains(Lower(StrItems(note.items)), Str_view)

\* NSFParser._is_document_note
IsDocumentNote(note) == note.note_class = DocumentClass

\* the branch the if/elif chain of _build_application_model takes for a note
NoteRole(note) ==
    IF IsFormNote(note) THEN "Form"
    ELSE IF IsViewNote(note) THEN "View"
    ELSE IF IsDocumentNote(note) THEN "Document"
    ELSE "Unknown"

\* FieldModel(id, name, type, label, required)
FieldModel(id, name, type, label, required) ==
    [id |-> id, name |-> name, type |-> type, label |-> label, required |-> required]

\* ColumnModel(id, name, title, data_type)
ColumnModel(id, name, title, data_type) ==
    [id |-> id, name |-> name, title |-> title, data_type |-> data_type]

\* NSFParser._extract_form
ExtractForm(note, now) ==
    [id |-> Digits(note.note_id),
     name |-> OrElse(GetTextItem(note, Str_form_name), Str_Form_ \o Digits(note.note_id)),
     alias |-> None,
     description |-> Str_FormExtracted \o Digits(note.note_id),
     created_date |-> now,
     fields |-> << FieldModel("title", "Title", "text", "Title", TRUE),
                   FieldModel("content", "Content", "rich_text", "Content", FALSE),
                   FieldModel("created_date", "Created", "datetime", "Created Date", FALSE) >>]

\* an extracted view with its columns in the order of the default view
ExtractViewDefaultColumnOrder(note, now) ==
    [id |-> Digits(note.note_id),
     name |-> OrElse(GetTextItem(note, Str_view_name), Str_View_ \o Digits(note.note_id)),
     alias |-> None,
     description |-> Str_ViewExtracted \o Digits(note.note_id),
     created_date |-> now,
     columns |-> << ColumnModel("title", "title", "Title", "text"),
                    ColumnModel("author", "author", "Author", "text"),
                    ColumnModel("created_date", "created_date", "Created", "datetime") >>,
     default_view |-> FALSE]

\* NSFParser._extract_view
ExtractView(note, now) ==
    [id |-> Digits(note.note_id),
     name |-> OrElse(GetTextItem(note, Str_view_name), Str_View_ \o Digits(note.note_id)),
     alias |-> None,
     description |-> Str_ViewExtracted \o Digits(note.note_id),
     created_date |-> now,
     columns |-> << ColumnModel("title", "title", "Title", "text"),
                    ColumnModel("created_date", "created_date", "Created", "datetime"),
                    ColumnModel("author", "author", "Author", "text") >>,
     default_view |-> FALSE]

\* NSFParser._extract_document
ExtractDocument(note, now) ==
    [id |-> Digits(note.note_id),
     form_name |-> Str_DefaultForm,
     created_date |-> now,
     fields |-> << [key |-> "title", value |-> Str_Document_ \o Digits(note.note_id)],
                   [key |-> "content", value |-> "Sample document content"],
                   [key |-> "created_date", value |-> now] >>]

\* created_date: Optional[datetime] = None
NoDate == -1

\* a default form with the three fields of an extracted form
CreateDefaultFormThreeFields ==
    [id |-> Str_default_form,
     name |-> Str_DefaultForm,
     alias |-> None,
     description |-> Str_DefaultFormDescription,
     created_date |-> NoDate,
     fields |-> << FieldModel("title", "Title", "text", "Title", TRUE),
                   FieldModel("content", "Content", "rich_text", "Content", FALSE),
                   FieldModel("created_date", "Created", "datetime", "Created Date", FALSE) >>]

\* NSFParser._create_default_form
CreateDefaultForm ==
    [id |-> Str_default_form,
     name |-> Str_DefaultForm,
     alias |-> None,
     description |-> Str_DefaultFormDescription,
     created_date |-> NoDate,
     fields |-> << FieldModel("title", "Title", "text", "Title", TRUE),
                   FieldModel("content", "Content", "rich_text", "Content", FALSE),
                   FieldModel("author", "Author", "text", "Author", FALSE),
                   FieldModel("created_date", "Created", "datetime", "Created Date", FALSE) >>]

\* NSFParser._create_default_view
CreateDefaultView ==
    [id |-> Str_default_view,
     name |-> Str_AllDocuments,
     alias |-> None,
     description |-> Str_DefaultViewDescription,
     created_date |-> NoDate,
     columns |-> << ColumnModel("title", "title", "Title", "text"),
                    ColumnModel("author", "author", "Author", "text"),
                    ColumnModel("created_date", "created_date", "Created", "datetime") >>,
     default_view |-> TRUE]

\* the loop with three independent tests instead of one if/elif chain
ExtractNotesNoElif(ns, a, now) ==
    LET fs == SelectSeq(ns, IsFormNote)
        vs == SelectSeq(ns, IsViewNote)
        ds == SelectSeq(ns, IsDocumentNote)
    IN  [a EXCEPT !.forms = @ \o [k \in 1..Len(fs) |-> ExtractForm(fs[k], now)],
                  !.views = @ \o [k \in 1..Len(vs) |-> ExtractView(vs[k], now)],
                  !.documents = @ \o [k \in 1..Len(ds) |-> ExtractDocument(ds[k], now)]]

\* the loop with a final else branch that makes a document of any other note
ExtractNotesElseDocument(ns, a, now) ==
    LET IsView(note) == ~IsFormNote(note) /\ IsViewNote(note)
        IsDocument(note) == ~IsFormNote(note) /\ ~IsViewNote(note)
        fs == SelectSeq(ns, IsFormNote)
        vs == SelectSeq(ns, IsView)
        ds == SelectSeq(ns, IsDocument)
    IN  [a EXCEPT !.forms = @ \o [k \in 1..Len(fs) |-> ExtractForm(fs[k], now)],
                  !.views = @ \o [k \in 1..Len(vs) |-> ExtractView(vs[k], now)],
                  !.documents = @ \o [k \in 1..Len(ds) |-> ExtractDocument(ds[k], now)]]

\* the loop inserting each entry at the front of its collection
ExtractNotesPrepend(ns, a, now) ==
    LET IsView(note) == ~IsFormNote(note) /\ IsViewNote(note)
        IsDocument(note) == ~IsFormNote(note) /\ ~IsViewNote(note) /\ IsDocumentNote(note)
        fs == SelectSeq(ns, IsFormNote)
        vs == SelectSeq(ns, IsView)
        ds == SelectSeq(ns, IsDocument)
    IN  [a EXCEPT !.forms = [k \in 1..Len(fs) |-> ExtractForm(fs[Len(fs) + 1 - k], now)] \o @,
                  !.views = [k \in 1..Len(vs) |-> ExtractView(vs[Len(vs) + 1 - k], now)] \o @,
                  !.documents = [k \in 1..Len(ds) |-> ExtractDocument(ds[Len(ds) + 1 - k], now)] \o @]

\* the loop of _build_application_model over self.notes: a note goes to the
\* first of forms, views, documents whose test it passes
ExtractNotes(ns, a, now) ==
    LET IsView(note) == ~IsFormNote(note) /\ IsViewNote(note)
        IsDocument(note) == ~IsFormNote(note) /\ ~IsViewNote(note) /\ IsDocumentNote(note)
        fs == SelectSeq(ns, IsFormNote)
        vs == SelectSeq(ns, IsView)
        ds == SelectSeq(ns, IsDocument)
    IN  [a EXCEPT !.forms = @ \o [k \in 1..Len(fs) |-> ExtractForm(fs[k], now)],
                  !.views = @ \o [k \in 1..Len(vs) |-> ExtractView(vs[k], now)],
                  !.documents = @ \o [k \in 1..Len(ds) |-> ExtractDocument(ds[k], now)]]

\* defaults appended whether or not the collections are empty
AddDefaultsAlways(a) ==
    [a EXCEPT !.forms = Append(@, CreateDefaultForm), !.views = Append(@, CreateDefaultView)]

\* the default form and view of _build_application_model
AddDefaults(a) ==
    LET a1 == IF a.forms = <<>> THEN [a EXCEPT !.forms = Append(@, CreateDefaultForm)] ELSE a
    IN  IF a1.views = <<>> THEN [a1 EXCEPT !.views = Append(@, CreateDefaultView)] ELSE a1

\* a model always named after the file
BuildModelNamedAfterFile(filename, header, ns, now) ==
    LET a0 == [id |-> filename,
               name |-> filename,
               description |-> Str_ConvertedFrom \o filename,
               created_date |-> now,
               modified_date |-> now,
               forms |-> <<>>, views |-> <<>>, documents |-> <<>>]
    IN  AddDefaults(ExtractNotes(ns, a0, now))

\* NSFParser._build_application_model(filename)
BuildModel(filename, header, ns, now) ==
    LET a0 == [id |-> filename,
               name |-> IF header.title # <<>> THEN header.title ELSE filename,
               description |-> Str_ConvertedFrom \o filename,
               created_date |-> now,
               modified_date |-> now,
               forms |-> <<>>, views |-> <<>>, documents |-> <<>>]
    IN  AddDefaults(ExtractNotes(ns, a0, now))

(***************************************************************************)
(* ApplicationModel lookups                                                *)
(***************************************************************************)

\* an alias that is set
Alias(text) == [none |-> FALSE, text |-> text]

\* the first entry of a sequence whose name or alias is name, or None
FirstNamed(entries, name) ==
    LET hits == {k \in 1..Len(entries) :
                    entries[k].name = name \/ entries[k].alias = Alias(name)}
    IN  IF hits = {} THEN None
        ELSE entries[CHOOSE k \in hits : \A j \in hits : k <= j]

\* a lookup that compares names only
GetFormByNameIgnoresAlias(a, name) ==
    LET hits == {k \in 1..Len(a.forms) : a.forms[k].name = name}
    IN  IF hits = {} THEN None
        ELSE a.forms[CHOOSE k \in hits : \A j \in hits : k <= j]

\* ApplicationModel.get_form_by_name(name)
GetFormByName(a, name) == FirstNamed(a.forms, name)

\* ApplicationModel.get_view_by_name(name)
GetViewByName(a, name) == FirstNamed(a.views, name)

\* a lookup that stops at the first matching document
GetDocumentsByFormFirstOnly(a, form_name) ==
    LET docs == SelectSeq(a.documents, LAMBDA doc : doc.form_name = form_name)
    IN  IF docs = <<>> THEN <<>> ELSE <<docs[1]>>

\* ApplicationModel.get_documents_by_form(form_name)
GetDocumentsByForm(a, form_name) ==
    SelectSeq(a.documents, LAMBDA doc : doc.form_name = form_name)

(***************************************************************************)
(* NSFParser._parse_notes                                                  *)
(***************************************************************************)

\* the record cap of _parse_notes
MaxNotes == 100

\* a sanity limit that lets one more byte through
MaxNoteLengthOffByOne == 1024 * 1024 + 1

\* the sanity limit on note_length
MaxNoteLength == 1024 * 1024

\* an iteration that accepts a payload cut short by the end of the stream
ParseNoteShortRead(s, ns, id) ==
    LET note_header == BTake(s, 16)
        s1 == BDrop(s, 16)
    IN  IF BLen(note_header) < 16
        THEN [break |-> TRUE, stream |-> s1, notes |-> ns, note_id |-> id]
        ELSE LET note_class == Unpack16(note_header, 0)
                 note_length == Unpack32(note_header, 4)
             IN  IF note_length = 0 \/ note_length > MaxNoteLength
                 THEN [break |-> TRUE, stream |-> s1, notes |-> ns, note_id |-> id]
                 ELSE LET note_data == BTake(s1, note_length)
                          s2 == BDrop(s1, note_length)
                          ns1 == Append(ns, NSFNote(id, note_class, note_data))
                      IN  [break |-> Len(ns1) > MaxNotes, stream |-> s2,
                           notes |-> ns1, note_id |-> id + 1]

\* an iteration that spends an id on a frame whose payload is cut short
ParseNoteIdOnRejectedFrame(s, ns, id) ==
    LET note_header == BTake(s, 16)
        s1 == BDrop(s, 16)
    IN  IF BLen(note_header) < 16
        THEN [break |-> TRUE, stream |-> s1, notes |-> ns, note_id |-> id]
        ELSE LET note_class == Unpack16(note_header, 0)
                 note_length == Unpack32(note_header, 4)
             IN  IF note_length = 0 \/ note_length > MaxNoteLength
                 THEN [break |-> TRUE, stream |-> s1, notes |-> ns, note_id |-> id]
                 ELSE LET note_data == BTake(s1, note_length)
                          s2 == BDrop(s1, note_length)
                      IN  IF BLen(note_data) < note_length
                          THEN [break |-> TRUE, stream |-> s2, notes |-> ns, note_id |-> id + 1]
                          ELSE LET ns1 == Append(ns, NSFNote(id, note_class, note_data))
                               IN  [break |-> Len(ns1) > MaxNotes, stream |-> s2,
                                    notes |-> ns1, note_id |-> id + 1]

\* an iteration that accepts a frame declaring no payload
ParseNoteAcceptsEmptyPayload(s, ns, id) ==
    LET note_header == BTake(s, 16)
        s1 == BDrop(s, 16)
    IN  IF BLen(note_header) < 16
        THEN [break |-> TRUE, stream |-> s1, notes |-> ns, note_id |-> id]
        ELSE LET note_class == Unpack16(note_header, 0)
                 note_length == Unpack32(note_header, 4)
             IN  IF note_length > MaxNoteLength
                 THEN [break |-> TRUE, stream |-> s1, notes |-> ns, note_id |-> id]
                 ELSE LET note_data == BTake(s1, note_length)
                          s2 == BDrop(s1, note_length)
                      IN  IF BLen(note_data) < note_length
                          THEN [break |-> TRUE, stream |-> s2, notes |-> ns, note_id |-> id]
                          ELSE LET ns1 == Append(ns, NSFNote(id, note_class, note_data))
                               IN  [break |-> Len(ns1) > MaxNotes, stream |-> s2,
                                    notes |-> ns1, note_id |-> id + 1]

\* one iteration of the loop of _parse_notes; an outcome of "break" leaves
\* the loop
ParseNote(s, ns, id) ==
    LET note_header == BTake(s, 16)
        s1 == BDrop(s, 16)
    IN  IF BLen(note_header) < 16
        THEN [break |-> TRUE, stream |-> s1, notes |-> ns, note_id |-> id]
        ELSE LET note_class == Unpack16(note_header, 0)
                 note_length == Unpack32(note_header, 4)
             IN  IF note_length = 0 \/ note_length > MaxNoteLength
                 THEN [break |-> TRUE, stream |-> s1, notes |-> ns, note_id |-> id]
                 ELSE LET note_data == BTake(s1, note_length)
                          s2 == BDrop(s1, note_length)
                      IN  IF BLen(note_data) < note_length
                          THEN [break |-> TRUE, stream |-> s2, notes |-> ns, note_id |-> id]
                          ELSE LET ns1 == Append(ns, NSFNote(id, note_class, note_data))
                               IN  [break |-> Len(ns1) > MaxNotes, stream |-> s2,
                                    notes |-> ns1, note_id |-> id + 1]

(***************************************************************************)
(* The files given to parse_file                                           *)
(***************************************************************************)

\* longest sequence of well-formed frames drawn from the menu
MaxFrames == 2

\* a stream longer than the record cap
ManyFrames == 150

\* "sample.nsf"
FileName == <<115, 97, 109, 112, 108, 101, 46, 110, 115, 102>>

\* "Sample Notes Database"
SampleTitle ==
    <<83, 97, 109, 112, 108, 101, 32, 78, 111, 116, 101, 115, 32, 68, 97, 116, 97, 98, 97, 115, 101>>

\* the 22 header bytes: signature, three 16-bit fields, 14 further bytes
FileHeaderBytes(sig, version, info_buffer_size, class_id, pad) ==
    BCatAll(<<Lit(sig), Pack16(version), Pack16(info_buffer_size), Pack16(class_id),
              Run(pad, 14)>>)

\* an info buffer of avail bytes holding title at offset 64, zero elsewhere
InfoBuffer(title, avail) ==
    BTake(BCatAll(<<Run(0, 64), Lit(title), Run(0, avail)>>), avail)

\* one item: type, length, data
ItemBytes(item_type, data) == BCatAll(<<Pack16(item_type), Pack16(Len(data)), Lit(data)>>)

\* a frame: the class, the declared length and the payload bytes that follow
Frame(note_class, note_length, payload) ==
    [note_class |-> note_class, note_length |-> note_length, payload |-> payload]

\* the bytes of a frame: 16-byte prefix, then the payload
FrameBytes(f) ==
    BCatAll(<<Pack16(f.note_class), Run(0, 2), Pack32(f.note_length), Run(0, 8), f.payload>>)

\* the bytes of a sequence of frames
FramesBytes(fs) == BCatAll([k \in 1..Len(fs) |-> FrameBytes(fs[k])])

\* a well-formed frame: the declared length is the payload's length
WellFormed(note_class, payload) == Frame(note_class, BLen(payload), payload)

\* payloads
PayloadForm == ItemBytes(1, Str_form)

PayloadView == ItemBytes(2, Str_view)

\* "Form View"
PayloadFormView == ItemBytes(3, <<70, 111, 114, 109, 32, 86, 105, 101, 119>>)

PayloadPlain == Run(0, 8)

PayloadByte == Run(7, 1)

\* the largest payload a frame may declare: 1,048,576 bytes
LargestPayload == 1024 * 1024

PayloadLargest == Run(0, LargestPayload)

DocFrame == WellFormed(DocumentClass, PayloadByte)

\* the well-formed frames streams are made of
FrameMenu ==
    { WellFormed(DocumentClass, PayloadByte),
      WellFormed(DocumentClass, PayloadForm),
      WellFormed(DocumentClass, PayloadView),
      WellFormed(DesignClass, PayloadForm),
      WellFormed(DesignClass, PayloadView),
      WellFormed(DesignClass, PayloadFormView),
      WellFormed(DesignClass, PayloadPlain),
      WellFormed(7, PayloadForm),
      WellFormed(DocumentClass, PayloadLargest) }

\* what follows the well-formed frames
TailKinds == {"none", "short_prefix", "zero_length", "too_long", "truncated",
              "truncated_largest"}

MalformedKinds == {"zero_length", "too_long", "truncated", "truncated_largest"}

TailBytes(kind) ==
    IF kind = "none" THEN <<>>
    ELSE IF kind = "short_prefix" THEN BCat(Pack16(DocumentClass), Run(1, 13))
    ELSE IF kind = "zero_length"
         THEN BCat(FrameBytes(Frame(DocumentClass, 0, <<>>)), FrameBytes(DocFrame))
    ELSE IF kind = "too_long"
         THEN BCat(FrameBytes(Frame(DocumentClass, LargestPayload + 1, Run(0, LargestPayload + 1))),
                   FrameBytes(DocFrame))
    ELSE IF kind = "truncated"
         THEN FrameBytes(Frame(DocumentClass, 10, Run(7, 3)))
    ELSE FrameBytes(Frame(DocumentClass, LargestPayload, Run(0, LargestPayload - 1)))

Fixture(kind, sig, version, info_buffer_size, class_id, pad, hdr_len, info, frames, tail_kind) ==
    [kind |-> kind, sig |-> sig, version |-> version,
     info_buffer_size |-> info_buffer_size, class_id |-> class_id, pad |-> pad,
     hdr_len |-> hdr_len, info |-> info, frames |-> frames, tail_kind |-> tail_kind]

\* the bytes of the file a fixture describes
FileBytes(fx) ==
    LET header == FileHeaderBytes(fx.sig, fx.version, fx.info_buffer_size, fx.class_id, fx.pad)
    IN  IF fx.hdr_len < HeaderSize THEN BTake(header, fx.hdr_len)
        ELSE BCatAll(<<header, fx.info, FramesBytes(fx.frames), TailBytes(fx.tail_kind)>>)

GoodSig == <<26, 0>>

BadSigs == {<<26, 1>>, <<27, 0>>, <<0, 26>>, <<0, 0>>}

U16Samples == {0, 1, 43, 255, 256, 4660, 65535}

SeqsUpTo(S, n) == UNION {[1..k -> S] : k \in 0..n}

\* headers: every sampled value of the three fields, two fillers
HeaderFixtures ==
    { Fixture("header", GoodSig, v, s, c, p, HeaderSize, <<>>, <<>>, "none") :
        v \in U16Samples, s \in U16Samples, c \in U16Samples, p \in {0, 255} }

\* files shorter than a header, and files with a wrong signature
BadHeaderFixtures ==
    { Fixture("short", sig, 43, 0, 1, 0, n, <<>>, <<>>, "none") :
        sig \in {GoodSig} \cup BadSigs, n \in 0..(HeaderSize - 1) }
    \cup
    { Fixture("badsig", sig, 43, 0, 1, 0, HeaderSize, <<>>, fs, "none") :
        sig \in BadSigs, fs \in SeqsUpTo({DocFrame, WellFormed(DesignClass, PayloadForm)}, 1) }

InfoSizes == {0, 64, 100, 128, 129, 192}

InfoAvail == {0, 64, 100, 127, 128, 129, 150, 192}

\* "Sample Notes Database", nothing, 70 letters, "e-acute A", ill-formed bytes
TitleMenu ==
    { SampleTitle, <<>>, [k \in 1..70 |-> 65], <<195, 169, 65>>, <<255, 65, 128, 66>> }

\* info buffers: complete or cut short by the end of the file
InfoFixtures ==
    { Fixture("info", GoodSig, 43, s, 1, 0, HeaderSize, InfoBuffer(t, a), fs, "none") :
        s \in InfoSizes, a \in InfoAvail, t \in TitleMenu, fs \in SeqsUpTo({DocFrame}, 1) }

\* the info buffer of a fixture is what the header announces, or the file
\* ends inside it
Realistic(fx) ==
    /\ BLen(fx.info) <= fx.info_buffer_size
    /\ BLen(fx.info) < fx.info_buffer_size => fx.frames = <<>> /\ fx.tail_kind = "none"

\* record streams: up to MaxFrames well-formed frames, then a tail
FrameFixtures ==
    { Fixture("frames", GoodSig, 43, 0, 1, 0, HeaderSize, <<>>, fs, tk) :
        fs \in SeqsUpTo(FrameMenu, MaxFrames), tk \in TailKinds }

\* the end-to-end fixture: title at offset 64 of a 128-byte info buffer, one
\* design record holding "form", one document record
SampleFixture ==
    Fixture("sample", GoodSig, 43, 128, 1, 0, HeaderSize, InfoBuffer(SampleTitle, 128),
            <<WellFormed(DesignClass, PayloadForm), DocFrame>>, "none")

\* streams of n identical well-formed frames around the record cap
LongFixtures ==
    { Fixture("long", GoodSig, 43, 0, 1, 0, HeaderSize, <<>>, [k \in 1..n |-> DocFrame], tk) :
        n \in {MaxNotes - 1, MaxNotes, MaxNotes + 1, ManyFrames}, tk \in {"none", "truncated"} }

\* item payloads for the classifier: "fo" and "rm" in two items, "form" after
\* a NUL, 0x0f "orm", "fo" 0xff "rm", "FORM", "view" and "form" in two items,
\* "vi" and "ew" in two items, "view" after a NUL, "ViEw", "text"
ClassifierPayloads ==
    { BCatAll(<<ItemBytes(1, <<102, 111>>), ItemBytes(2, <<114, 109>>), Run(0, 2)>>),
      ItemBytes(1, <<0>> \o Str_form),
      ItemBytes(1, <<15, 111, 114, 109>>),
      ItemBytes(1, <<102, 111, 255, 114, 109>>),
      ItemBytes(1, <<70, 79, 82, 77>>),
      BCat(ItemBytes(1, Str_view), ItemBytes(2, Str_form)),
      BCatAll(<<ItemBytes(1, <<118, 105>>), ItemBytes(2, <<101, 119>>), Run(0, 2)>>),
      ItemBytes(1, <<0>> \o Str_view),
      ItemBytes(1, <<86, 105, 69, 119>>),
      ItemBytes(1, <<116, 101, 120, 116>>) }

\* one design record per classifier payload
ClassifierFixtures ==
    { Fixture("classifier", GoodSig, 43, 0, 1, 0, HeaderSize, <<>>,
              <<WellFormed(DesignClass, p)>>, "none") : p \in ClassifierPayloads }

\* item payloads for the item scan: a 5-byte item alone, an item declaring 8
\* bytes with 4 present, two whole items, a whole item then a 6-byte item,
\* a whole item then a zero length, 3 bytes, one type written twice, types
\* 1, 2, 1
ItemPayloads ==
    { ItemBytes(1, <<65>>),
      BCatAll(<<Pack16(1), Pack16(8), Lit(<<65, 66, 67, 68>>)>>),
      BCat(ItemBytes(1, <<65, 66, 67, 68>>), ItemBytes(2, <<69, 70, 71, 72>>)),
      BCat(ItemBytes(1, <<65, 66, 67, 68>>), ItemBytes(2, <<69, 70>>)),
      BCatAll(<<ItemBytes(1, <<65, 66, 67, 68>>), Pack16(2), Pack16(0), Run(0, 4)>>),
      Run(1, 3),
      BCat(ItemBytes(1, <<65, 66, 67, 68>>), ItemBytes(1, <<69, 70, 71, 72>>)),
      BCatAll(<<ItemBytes(1, <<65, 66, 67, 68>>), ItemBytes(2, <<69, 70, 71, 72>>),
                ItemBytes(1, <<73, 74, 75, 76>>)>>) }

\* one document record per item payload
ItemFixtures ==
    { Fixture("items", GoodSig, 43, 0, 1, 0, HeaderSize, <<>>,
              <<WellFormed(DocumentClass, p)>>, "none") : p \in ItemPayloads }

Fixtures ==
    { fx \in HeaderFixtures \cup BadHeaderFixtures \cup InfoFixtures \cup FrameFixtures
             \cup {SampleFixture} \cup LongFixtures \cup ClassifierFixtures
             \cup ItemFixtures : Realistic(fx) }

(***************************************************************************)
(* NSFParser.parse_file                                                    *)
(***************************************************************************)

\* NSFParser() and open(file_path, 'rb')
Init ==
    /\ fixture \in Fixtures
    /\ stream = FileBytes(fixture)
    /\ pos = 0
    /\ pc = "file_header"
    /\ file_header = None
    /\ db_header = None
    /\ notes = <<>>
    /\ note_id = 0
    /\ app = None
    /\ result = "none"
    /\ clock = 0
    /\ history = <<>>

\* _parse_nsf_stream: header_data = stream.read(22); NSFFileHeader(header_data);
\* parse_file turns what the header raises into NSFParseError
ReadFileHeader ==
    /\ pc = "file_header"
    /\ LET header_data == BTake(stream, HeaderSize)
           header == NSFFileHeader(header_data)
       IN  /\ stream' = BDrop(stream, HeaderSize)
           /\ pos' = pos + BLen(header_data)
           /\ IF header.error # "none"
              THEN /\ pc' = "failed"
                   /\ result' = "NSFParseError"
                   /\ UNCHANGED file_header
              ELSE /\ pc' = "db_header"
                   /\ file_header' = header
                   /\ UNCHANGED result
    /\ UNCHANGED <<fixture, db_header, notes, note_id, app, clock, history>>

\* _parse_nsf_stream: db_header_data = stream.read(info_buffer_size)
ReadDatabaseHeader ==
    /\ pc = "db_header"
    /\ LET db_header_data == BTake(stream, file_header.info_buffer_size)
       IN  /\ stream' = BDrop(stream, file_header.info_buffer_size)
           /\ pos' = pos + BLen(db_header_data)
           /\ db_header' = NSFDatabaseHeader(db_header_data)
    /\ pc' = "notes"
    /\ note_id' = 1
    /\ UNCHANGED <<fixture, file_header, notes, app, result, clock, history>>

\* _parse_notes, one frame at a time
ParseNotes ==
    /\ pc = "notes"
    /\ LET r == ParseNote(stream, notes, note_id)
       IN  /\ stream' = r.stream
           /\ pos' = pos + (BLen(stream) - BLen(r.stream))
           /\ notes' = r.notes
           /\ note_id' = r.note_id
           /\ pc' = IF r.break THEN "build" ELSE "notes"
    /\ UNCHANGED <<fixture, file_header, db_header, app, result, clock, history>>

\* _build_application_model, returned by parse_file; datetime.now() reads
\* a clock that may have advanced
BuildApplicationModel ==
    /\ pc = "build"
    /\ \E now \in {clock, clock + 1} :
        /\ clock' = now
        /\ app' = BuildModel(FileName, db_header, notes, now)
    /\ result' = "model"
    /\ pc' = "done"
    /\ UNCHANGED <<fixture, stream, pos, file_header, db_header, notes, note_id, history>>

Next == ReadFileHeader \/ ReadDatabaseHeader \/ ParseNotes \/ BuildApplicationModel

Spec == Init /\ [][Next]_vars

(***************************************************************************)
(* Several parse_file calls                                                *)
(***************************************************************************)

\* the number of parse_file calls of a run
MaxCalls == 2

\* the files of a run with several calls: no record, one document record,
\* the end-to-end sample, a wrong signature, the record cap filled exactly
ReuseFixtures ==
    { Fixture("frames", GoodSig, 43, 0, 1, 0, HeaderSize, <<>>, <<>>, "none"),
      Fixture("frames", GoodSig, 43, 0, 1, 0, HeaderSize, <<>>, <<DocFrame, DocFrame>>, "none"),
      SampleFixture,
      Fixture("badsig", <<26, 1>>, 43, 0, 1, 0, HeaderSize, <<>>, <<DocFrame>>, "none"),
      Fixture("long", GoodSig, 43, 0, 1, 0, HeaderSize, <<>>,
              [k \in 1..MaxNotes |-> DocFrame], "none") }

\* the call in progress is the first one of its NSFParser
CurrentFresh == history = <<>> \/ history[Len(history)].next_fresh

\* what a call leaves behind: its file, the model it returned (None when it
\* raised), whether its parser was new, whether the next call's parser is
Finished(next_fresh) ==
    [fixture |-> fixture, app |-> IF pc = "done" THEN app ELSE None,
     fresh |-> CurrentFresh, next_fresh |-> next_fresh]

\* parser = NSFParser(); parser.parse_file(file_path)
InitReuse ==
    /\ fixture \in ReuseFixtures
    /\ stream = FileBytes(fixture)
    /\ pos = 0
    /\ pc = "file_header"
    /\ file_header = None
    /\ db_header = None
    /\ notes = <<>>
    /\ note_id = 0
    /\ app = None
    /\ result = "none"
    /\ clock = 0
    /\ history = <<>>

\* one more parser.parse_file(file_path) on the same NSFParser, as
\* NotesConverter.convert does: file_header and db_header stay until they
\* are assigned again, self.notes is not emptied
ParseFileAgain ==
    /\ pc \in {"done", "failed"}
    /\ Len(history) + 1 < MaxCalls
    /\ \E fx \in ReuseFixtures :
        /\ fixture' = fx
        /\ stream' = FileBytes(fx)
    /\ pos' = 0
    /\ pc' = "file_header"
    /\ app' = None
    /\ result' = "none"
    /\ history' = Append(history, Finished(FALSE))
    /\ UNCHANGED <<file_header, db_header, notes, note_id, clock>>

\* a new parser that starts with the notes of the old one
ParseFileFreshKeepsNotes ==
    /\ pc \in {"done", "failed"}
    /\ Len(history) + 1 < MaxCalls
    /\ \E fx \in ReuseFixtures :
        /\ fixture' = fx
        /\ stream' = FileBytes(fx)
    /\ pos' = 0
    /\ pc' = "file_header"
    /\ file_header' = None
    /\ db_header' = None
    /\ note_id' = 0
    /\ app' = None
    /\ result' = "none"
    /\ history' = Append(history, Finished(TRUE))
    /\ UNCHANGED <<notes, clock>>

\* NSFParser().parse_file(file_path): a call on a new NSFParser
ParseFileFresh ==
    /\ pc \in {"done", "failed"}
    /\ Len(history) + 1 < MaxCalls
    /\ \E fx \in ReuseFixtures :
        /\ fixture' = fx
        /\ stream' = FileBytes(fx)
    /\ pos' = 0
    /\ pc' = "file_header"
    /\ file_header' = None
    /\ db_header' = None
    /\ notes' = <<>>
    /\ note_id' = 0
    /\ app' = None
    /\ result' = "none"
    /\ history' = Append(history, Finished(TRUE))
    /\ UNCHANGED clock

NextReuse ==
    \/ ReadFileHeader \/ ReadDatabaseHeader \/ ParseNotes \/ BuildApplicationModel
    \/ ParseFileAgain \/ ParseFileFresh

SpecReuse == InitReuse /\ [][NextReuse]_vars

(***************************************************************************)
(* ApplicationModel lookups on their own                                   *)
(***************************************************************************)

\* the longest forms, views and documents lists of a sampled model
MaxEntries == 2

\* the names looked up and given to entries: "A", "B", "C"
LookupNames == {<<65>>, <<66>>, <<67>>}

EntryNames == {<<65>>, <<66>>}

\* name and alias of a form or view
NameAndAlias == [name : EntryNames, alias : {None} \cup {Alias(n) : n \in EntryNames}]

\* FormModel(id=, name=, alias=)
FormSample(k, e) ==
    [id |-> Digits(k), name |-> e.name, alias |-> e.alias, description |-> None,
     created_date |-> NoDate, fields |-> <<>>]

\* ViewModel(id=, name=, alias=)
ViewSample(k, e) ==
    [id |-> Digits(k), name |-> e.name, alias |-> e.alias, description |-> None,
     created_date |-> NoDate, columns |-> <<>>, default_view |-> FALSE]

\* DocumentModel(id=, form_name=)
DocumentSample(k, form_name) ==
    [id |-> Digits(k), form_name |-> form_name, created_date |-> NoDate, fields |-> <<>>]

\* ApplicationModel(id=, name=, forms=, views=, documents=); the views take
\* the names and aliases of the forms in reverse order
ModelSamples ==
    { [id |-> FileName, name |-> FileName, description |-> None,
       created_date |-> NoDate, modified_date |-> NoDate,
       forms |-> [k \in 1..Len(es) |-> FormSample(k, es[k])],
       views |-> [k \in 1..Len(es) |-> ViewSample(k, es[Len(es) + 1 - k])],
       documents |-> [k \in 1..Len(fs) |-> DocumentSample(k, fs[k])]] :
        es \in SeqsUpTo(NameAndAlias, MaxEntries), fs \in SeqsUpTo(EntryNames, MaxEntries) }

\* app = ApplicationModel(...)
InitModel ==
    /\ fixture \in ModelSamples
    /\ app = fixture
    /\ stream = <<>>
    /\ pos = 0
    /\ pc = "model"
    /\ file_header = None
    /\ db_header = None
    /\ notes = <<>>
    /\ note_id = 0
    /\ result = [call |-> "none"]
    /\ clock = 0
    /\ history = <<>>

\* app.get_form_by_name(name)
CallGetFormByName ==
    /\ pc = "model"
    /\ \E name \in LookupNames :
        result' = [call |-> "get_form_by_name", arg |-> name, value |-> GetFormByName(app, name)]
    /\ UNCHANGED <<fixture, stream, pos, pc, file_header, db_header, notes, note_id, app,
                   clock, history>>

\* app.get_view_by_name(name)
CallGetViewByName ==
    /\ pc = "model"
    /\ \E name \in LookupNames :
        result' = [call |-> "get_view_by_name", arg |-> name, value |-> GetViewByName(app, name)]
    /\ UNCHANGED <<fixture, stream, pos, pc, file_header, db_header, notes, note_id, app,
                   clock, history>>

\* app.get_documents_by_form(form_name)
CallGetDocumentsByForm ==
    /\ pc = "model"
    /\ \E form_name \in LookupNames :
        result' = [call |-> "get_documents_by_form", arg |-> form_name,
                   value |-> GetDocumentsByForm(app, form_name)]
    /\ UNCHANGED <<fixture, stream, pos, pc, file_header, db_header, notes, note_id, app,
                   clock, history>>

NextModel == CallGetFormByName \/ CallGetViewByName \/ CallGetDocumentsByForm

SpecModel == InitModel /\ [][NextModel]_vars

(***************************************************************************)
(* LMBCSDecoder.decode on its own                                          *)
(***************************************************************************)

\* the longest input given to the decoder
MaxDecodeLen == 3

\* the bytes the inputs are made of: NUL, "A", two continuation bytes, the
\* lead byte of a two-byte sequence, a byte that occurs in no sequence
DecodeBytes == {0, 65, 128, 169, 195, 255}

DecodeInputs == SeqsUpTo(DecodeBytes, MaxDecodeLen)

\* decoder = LMBCSDecoder(); data is the argument of decode
InitDecode ==
    /\ fixture \in DecodeInputs
    /\ stream = Lit(fixture)
    /\ pos = 0
    /\ pc = "decode"
    /\ file_header = None
    /\ db_header = None
    /\ notes = <<>>
    /\ note_id = 0
    /\ app = None
    /\ result = "none"
    /\ clock = 0
    /\ history = <<>>

\* decoder.decode(data) returns
DecodeCall ==
    /\ pc = "decode"
    /\ result' = Decode(stream)
    /\ pc' = "decoded"
    /\ UNCHANGED <<fixture, stream, pos, file_header, db_header, notes, note_id, app,
                   clock, history>>

NextDecode == DecodeCall

SpecDecode == InitDecode /\ [][NextDecode]_vars

(***************************************************************************)
(* Properties                                                              *)
(***************************************************************************)

\* the scan of _parse_notes is over
ScanOver == pc \in {"build", "done"}

\* the file starts with 22 bytes that carry the fixed signature
ValidHeader == fixture.hdr_len = HeaderSize /\ fixture.sig = GoodSig

\* what identifies a field: name, type, required
FieldSig(f) == <<f.name, f.type, f.required>>

FieldSigs(form) == [k \in 1..Len(form.fields) |-> FieldSig(form.fields[k])]

ThreeCanonicalFields ==
    << <<"Title", "text", TRUE>>, <<"Content", "rich_text", FALSE>>,
       <<"Created", "datetime", FALSE>> >>

FourDefaultFields ==
    << <<"Title", "text", TRUE>>, <<"Content", "rich_text", FALSE>>,
       <<"Author", "text", FALSE>>, <<"Created", "datetime", FALSE>> >>

IsDefaultForm(form) == form.id = Str_default_form /\ form.name = Str_DefaultForm

IsDefaultView(view) ==
    view.id = Str_default_view /\ view.name = Str_AllDocuments /\ view.default_view

\* the notes of self.notes that the builder turns into a form, a view
FormNotes == {k \in 1..Len(notes) : IsFormNote(notes[k])}

ViewNotes == {k \in 1..Len(notes) : ~IsFormNote(notes[k]) /\ IsViewNote(notes[k])}

\* C1: a stream of N well-formed frames after a valid header and info
\* buffer leaves exactly min(N, 100) records in self.notes once the scan of
\* a fresh parser is over (100 for N = 150).
C1_RetainsMinOfNAndHundred ==
    (ScanOver /\ fixture.tail_kind = "none")
        => Len(notes) = Min(Len(fixture.frames), 100)

\* C2: parsing the end-to-end fixture (version 43, infoBufferSize 128, title
\* "Sample Notes Database" at offset 64 of the info buffer, one class-1024
\* record holding "form", one class-512 record) returns a model named
\* "Sample Notes Database" with exactly 1 form of 3 canonical fields, exactly
\* 1 document, and exactly 1 view, the default one.
C2_SampleEndToEnd ==
    (pc = "done" /\ fixture = SampleFixture)
        => /\ app.name = SampleTitle
           /\ Len(app.forms) = 1
           /\ FieldSigs(app.forms[1]) = ThreeCanonicalFields
           /\ Len(app.documents) = 1
           /\ Len(app.views) = 1
           /\ IsDefaultView(app.views[1])

\* C3: in every returned model forms and views are non-empty; the default
\* form is present iff no scanned note produced a form, and is then the only
\* form; the default view is present iff no scanned note produced a view,
\* and is then the only view.
C3_DefaultsIffNothingExtracted ==
    pc = "done"
        => /\ app.forms # <<>>
           /\ app.views # <<>>
           /\ (\E k \in 1..Len(app.forms) : IsDefaultForm(app.forms[k])) <=> FormNotes = {}
           /\ FormNotes = {} => app.forms = <<CreateDefaultForm>>
           /\ (\E k \in 1..Len(app.views) : IsDefaultView(app.views[k])) <=> ViewNotes = {}
           /\ ViewNotes = {} => app.views = <<CreateDefaultView>>

\* a returned model whose only form is the default one while its views come
\* from notes
C3_Witness ==
    /\ pc = "done"
    /\ app.forms = <<CreateDefaultForm>>
    /\ ViewNotes # {}
    /\ Len(app.views) = Cardinality(ViewNotes)

C5_BadHeaderFails ==
    ~ValidHeader
        => /\ pc \in {"file_header", "failed"}
           /\ pc = "failed" => result = "NSFParseError"
           /\ result # "model"
           /\ app = None

\* a failed parse of a file whose second signature byte is wrong and whose
\* header is followed by a record
C5_Witness ==
    /\ pc = "failed"
    /\ result = "NSFParseError"
    /\ fixture.sig = <<26, 1>>
    /\ fixture.frames # <<>>

\* the records accepted so far are the leading frames of the file, unchanged
NotesAreLeadingFrames ==
    /\ Len(notes) <= Len(fixture.frames)
    /\ \A k \in 1..Len(notes) :
        /\ notes[k].note_id = k
        /\ notes[k].note_class = fixture.frames[k].note_class
        /\ notes[k].data = fixture.frames[k].payload

\* C6 as stated: a file whose first 22 bytes are a valid header yields a
\* model and raises nothing, whatever follows; an info buffer shorter than
\* infoBufferSize yields an empty title; malformed records only shorten what
\* is retained.
C6_ValidHeaderShortInfoEmptyTitle ==
    ValidHeader
        => /\ pc # "failed"
           /\ result # "NSFParseError"
           /\ pc = "done" => (result = "model" /\ app # None)
           /\ (db_header # None /\ BLen(fixture.info) < fixture.info_buffer_size)
                => db_header.title = <<>>
           /\ NotesAreLeadingFrames

\* C6 amended: a file whose first 22 bytes are a valid header yields a model
\* and raises nothing, whatever follows; an info buffer shorter than
\* infoBufferSize and of at most 128 bytes yields an empty title; malformed
\* records only shorten what is retained.
C6_ValidHeaderAlwaysModel ==
    ValidHeader
        => /\ pc # "failed"
           /\ result # "NSFParseError"
           /\ pc = "done" => (result = "model" /\ app # None)
           /\ (db_header # None /\ BLen(fixture.info) < fixture.info_buffer_size
               /\ BLen(fixture.info) <= 128)
                => db_header.title = <<>>
           /\ NotesAreLeadingFrames

\* a model returned for a file that ends inside its info buffer, with a
\* version other than 43
C6_Witness ==
    /\ pc = "done"
    /\ result = "model"
    /\ fixture.version # 43
    /\ BLen(fixture.info) < fixture.info_buffer_size
    /\ db_header.title = <<>>

\* C7: when the scanner meets a malformed frame (noteLength 0, noteLength
\* above 1,048,576, or a payload cut short) it stops without raising, accepts
\* nothing from that frame or a later one, and the records accepted before
\* it are returned unchanged and in order.
C7_MalformedFrameStopsScan ==
    (ScanOver /\ fixture.tail_kind \in MalformedKinds /\ Len(fixture.frames) <= MaxNotes)
        => /\ result # "NSFParseError"
           /\ Len(notes) = Len(fixture.frames)
           /\ NotesAreLeadingFrames

\* a model returned after a scan that accepted a record and then met a
\* payload cut short by the end of the file
C7_Witness ==
    /\ pc = "done"
    /\ fixture.tail_kind = "truncated"
    /\ Len(notes) >= 1
    /\ Len(notes) = Len(fixture.frames)

\* C8: every accepted record has a payload of exactly the declared
\* noteLength, between 1 and 1,048,576 bytes; a frame declaring 1,048,576
\* bytes that are all present is accepted, one declaring 1,048,577 is not.
C8_PayloadLengthDeclaredAndBounded ==
    /\ \A k \in 1..Len(notes) :
        /\ k <= Len(fixture.frames)
        /\ BLen(notes[k].data) = fixture.frames[k].note_length
        /\ BLen(notes[k].data) >= 1
        /\ BLen(notes[k].data) <= 1048576
    /\ (ScanOver /\ Len(fixture.frames) <= MaxNotes) => Len(notes) = Len(fixture.frames)

\* a scan that accepted a 1,048,576-byte record and then refused a frame
\* declaring 1,048,577 bytes
C8_Witness ==
    /\ ScanOver
    /\ fixture.tail_kind = "too_long"
    /\ \E k \in 1..Len(notes) : BLen(notes[k].data) = 1048576

\* C9: for a 22-byte buffer that starts with the signature, the header
\* reader returns version, infoBufferSize and classId equal to the encoded
\* little-endian 16-bit values, whatever the other 14 bytes hold.
C9_HeaderFieldsBitExact ==
    file_header # None
        => /\ file_header.version = fixture.version
           /\ file_header.info_buffer_size = fixture.info_buffer_size
           /\ file_header.class_id = fixture.class_id

\* a header read with three different field values, the largest among them,
\* and non-zero filler bytes
C9_Witness ==
    /\ file_header # None
    /\ fixture.version = 4660
    /\ fixture.info_buffer_size = 256
    /\ fixture.class_id = 65535
    /\ fixture.pad = 255

\* the ids of the entries of a collection of the model
Ids(entries) == {entries[k].id : k \in 1..Len(entries)}

\* C10: a record of class 512 is a Document and contributes exactly one
\* DocumentModel, whatever its item bytes hold, "form" and "view" included.
C10_Class512IsDocument ==
    pc = "done"
        => /\ \A k \in 1..Len(notes) :
                notes[k].note_class = 512
                    => /\ Cardinality({d \in 1..Len(app.documents) :
                                         app.documents[d].id = Digits(notes[k].note_id)}) = 1
                       /\ Digits(notes[k].note_id) \notin Ids(app.forms) \cup Ids(app.views)
           /\ Len(app.documents) = Cardinality({k \in 1..Len(notes) : notes[k].note_class = 512})

\* a model holding the document of a class-512 record whose item bytes
\* contain "form", next to the document of one whose item bytes contain "view"
C10_Witness ==
    /\ pc = "done"
    /\ Len(app.documents) = 2
    /\ \E k \in 1..Len(notes) :
        notes[k].note_class = 512 /\ Contains(Lower(StrItems(notes[k].items)), Str_form)
    /\ \E k \in 1..Len(notes) :
        notes[k].note_class = 512 /\ Contains(Lower(StrItems(notes[k].items)), Str_view)

\* the text obtained by decoding each item's bytes and concatenating the results
RECURSIVE DecodedDumpFrom(_, _)
DecodedDumpFrom(items, i) ==
    IF i > Len(items) THEN <<>>
    ELSE Decode(items[i].value) \o DecodedDumpFrom(items, i + 1)

DecodedDump(items) == DecodedDumpFrom(items, 1)

\* some stored item value holds the letters of word side by side, in any case
RawValueContains(note, word) ==
    \E i \in 1..Len(note.items) : Contains(Lower(Expand(note.items[i].value)), word)

\* the note adds one form, and no view or document
FormOnly(note) ==
    /\ Cardinality({f \in 1..Len(app.forms) : app.forms[f].id = Digits(note.note_id)}) = 1
    /\ Digits(note.note_id) \notin Ids(app.views) \cup Ids(app.documents)

RuleRole(text) ==
    IF Contains(Lower(text), Str_form) THEN "Form"
    ELSE IF Contains(Lower(text), Str_view) THEN "View"
    ELSE "Unknown"

\* the role the returned model shows for a note
AppRole(note) ==
    IF Digits(note.note_id) \in Ids(app.forms) THEN "Form"
    ELSE IF Digits(note.note_id) \in Ids(app.views) THEN "View"
    ELSE IF Digits(note.note_id) \in Ids(app.documents) THEN "Document"
    ELSE "Unknown"

\* a value of printable ASCII bytes other than the quotes and the backslash
PlainValue(B) ==
    LET s == Expand(B)
    IN  \A k \in 1..Len(s) : s[k] >= 32 /\ s[k] <= 126 /\ s[k] \notin {34, 39, 92}

NotesOfRole(r) == {k \in 1..Len(notes) : NoteRole(notes[k]) = r}

\* the entries of a collection that were made from notes: not the default
NoteDerived(entries, default_id) ==
    {e \in 1..Len(entries) : entries[e].id # default_id}

\* the collections of the model in which a note's id occurs
CollectionsOf(note) ==
    {c \in {"forms", "views", "documents"} : Digits(note.note_id) \in Ids(app[c])}

\* C13: a note whose role is Unknown adds no entry to forms, views or
\* documents, every scanned note contributes to at most one of the three
\* collections, and the note-derived forms, views and documents together
\* are as many as the notes whose role is not Unknown.
C13_UnknownAddsNothing ==
    pc = "done"
        => /\ \A k \in 1..Len(notes) :
                /\ Cardinality(CollectionsOf(notes[k])) <= 1
                /\ (\/ notes[k].note_class \notin {512, 1024}
                    \/ /\ notes[k].note_class = 1024
                       /\ ~Contains(Lower(StrItems(notes[k].items)), Str_form)
                       /\ ~Contains(Lower(StrItems(notes[k].items)), Str_view))
                        => CollectionsOf(notes[k]) = {}
           /\ Cardinality(NoteDerived(app.forms, Str_default_form))
                + Cardinality(NoteDerived(app.views, Str_default_view))
                + Len(app.documents)
              = Len(notes) - Cardinality(NotesOfRole("Unknown"))

\* a model built from two scanned notes, one of role Unknown and one not:
\* one note-derived entry in all
C13_Witness ==
    /\ pc = "done"
    /\ Len(notes) = 2
    /\ Cardinality(NotesOfRole("Unknown")) = 1
    /\ \E k \in 1..2 : notes[k].note_class = 1024 /\ NoteRole(notes[k]) = "Unknown"
    /\ Cardinality(NoteDerived(app.forms, Str_default_form))
         + Cardinality(NoteDerived(app.views, Str_default_view))
         + Len(app.documents) = 1

\* the title window of an info buffer: the bytes from offset 64 up to
\* min(128, L)
TitleWindow(info_buffer) ==
    Expand(BSlice(info_buffer, 64, Min(128, BLen(info_buffer))))

\* C14: for an info buffer of any length L the title is the permissive
\* decode of the bytes from offset 64 up to min(128, L), cut at the first
\* NUL; the title is empty only when that window is empty or starts with NUL.
C14_TitleIsWindowDecode ==
    db_header # None
        => LET window == TitleWindow(db_header.info_buffer)
           IN  /\ db_header.title = Utf8Ignore(SplitNul0(window))
               /\ db_header.title = <<>> => (window = <<>> \/ window[1] = 0)

\* the item mapping of a payload under the three stated conditions: an item
\* is recorded while at least 4 bytes remain for a prefix, the declared
\* length is non-zero and the item does not run past the end of the payload
RECURSIVE StatedItemsFrom(_, _, _)
StatedItemsFrom(data, offset, items) ==
    IF BLen(data) - offset < 4 THEN items
    ELSE LET item_type == Unpack16(data, offset)
             item_length == Unpack16(data, offset + 2)
         IN  IF item_length = 0 \/ offset + 4 + item_length > BLen(data) THEN items
             ELSE StatedItemsFrom(data, offset + 4 + item_length,
                                  DictSet(items, ItemKey(item_type),
                                          BSlice(data, offset + 4, offset + 4 + item_length)))

StatedItems(data) == StatedItemsFrom(data, 0, <<>>)

\* C15: the item mapping of every scanned note holds every item of the
\* payload in sequence from offset 0, for as long as at least 4 bytes remain
\* for a prefix, the declared length is non-zero and the item does not run
\* past the end of the payload, stopping only where one of the three fails.
C15_ItemsRecordedWhileConditionsHold ==
    \A k \in 1..Len(notes) : notes[k].items = StatedItems(notes[k].data)

\* C16: for every note, each value stored in the item mapping has exactly the
\* number of bytes declared in its item's length field and lies wholly inside
\* the payload, and the items scanned occupy adjacent byte ranges (prefix
\* plus data) starting at offset 0.
C16_ValuesHaveDeclaredLength ==
    \A k \in 1..Len(notes) :
        LET data == notes[k].data
            scan == ItemScan(data)
        IN  /\ \A i \in 1..Len(scan) :
                /\ scan[i].offset = (IF i = 1 THEN 0
                                     ELSE scan[i - 1].offset + 4 + scan[i - 1].item_length)
                /\ scan[i].offset + 4 + scan[i].item_length <= BLen(data)
            /\ \A j \in 1..Len(notes[k].items) :
                \E i \in 1..Len(scan) :
                    /\ ItemKey(scan[i].item_type) = notes[k].items[j].key
                    /\ scan[i].item_data = notes[k].items[j].value
                    /\ BLen(notes[k].items[j].value) = scan[i].item_length

\* the input of decode holds no byte >= 0x80 before its first NUL
AsciiBeforeNul == \A k \in 1..Len(SplitNul0(fixture)) : fixture[k] < 128

\* C17: on an input whose bytes before the first NUL are all ASCII, decode
\* returns exactly those bytes as characters, one per byte and in order, and
\* nothing from the NUL onward; on ASCII input with no NUL it returns the
\* whole input.
C17_AsciiUpToFirstNul ==
    (pc = "decoded" /\ AsciiBeforeNul) => result = SplitNul0(fixture)

\* decode has returned "A" for an input that goes on after a NUL
C17_Witness ==
    /\ pc = "decoded"
    /\ AsciiBeforeNul
    /\ Len(fixture) = 3
    /\ fixture[1] = 65 /\ fixture[2] = 0 /\ fixture[3] # 0
    /\ result = <<65>>

\* C18: for every input, the output of decode contains no character derived
\* from the first 0x00 byte or from any byte after it, also when a byte
\* >= 0x80 occurs before that 0x00 byte: the output is that of the bytes
\* before the first 0x00 alone.
C18_NothingFromNulOnward ==
    pc = "decoded" => result = Decode(Lit(SplitNul0(fixture)))

\* the replacement markers: "?" as in the decoder's handler, or U+FFFD
ReplacementMarkers == {63, 65533}

\* decoding as multi-byte text with one replacement marker for each
\* ill-formed byte
RECURSIVE Utf8ReplaceFrom(_, _, _)
Utf8ReplaceFrom(s, i, marker) ==
    IF i > Len(s) THEN <<>>
    ELSE LET n == Utf8SeqLen(s, i)
         IN  IF n = 0 THEN <<marker>> \o Utf8ReplaceFrom(s, i + 1, marker)
             ELSE <<Utf8CodePoint(s, i, n)>> \o Utf8ReplaceFrom(s, i + n, marker)

\* the position of the first byte >= 0x80 of the input, when decode meets it
FirstHigh ==
    LET highs == {k \in 1..Len(SplitNul0(fixture)) : fixture[k] >= 128}
    IN  IF highs = {} THEN 0 ELSE CHOOSE k \in highs : \A j \in highs : k <= j

\* C19: when decode meets its first byte >= 0x80 it decodes the remaining
\* bytes once as multi-byte text, with one replacement marker for each
\* invalid sequence among them (invalid bytes are not silently removed), and
\* then stops; decode never raises.
C19_ReplacementMarkerPerInvalidSequence ==
    (pc = "decoded" /\ FirstHigh > 0)
        => \E marker \in ReplacementMarkers :
            result = SubSeq(fixture, 1, FirstHigh - 1)
                     \o Utf8ReplaceFrom(SubSeq(fixture, FirstHigh, Len(fixture)), 1, marker)

\* the position in the stream of the frame a note-derived entry was made from
FrameOf(entry) ==
    CHOOSE k \in 1..Len(fixture.frames) : Digits(k) = entry.id

\* the entries of a collection are in stream order, and a default entry is
\* the only element of its collection
InStreamOrder(entries, default_id, classes) ==
    /\ \A e \in 1..Len(entries) :
        IF entries[e].id = default_id THEN Len(entries) = 1
        ELSE /\ \E k \in 1..Len(fixture.frames) : Digits(k) = entries[e].id
             /\ fixture.frames[FrameOf(entries[e])].note_class \in classes
    /\ \A e \in 1..(Len(entries) - 1) :
        FrameOf(entries[e]) < FrameOf(entries[e + 1])

\* C20: the forms, views and documents of the returned model preserve stream
\* order: of two accepted records of the same role, the entry of the one that
\* comes first in the stream comes first in its collection; a default entry
\* is only ever the sole element of its collection.
C20_CollectionsPreserveStreamOrder ==
    pc = "done"
        => /\ InStreamOrder(app.forms, Str_default_form, {1024})
           /\ InStreamOrder(app.views, Str_default_view, {1024})
           /\ InStreamOrder(app.documents, <<>>, {512})

\* a model with two forms made from two different records, in the order of
\* the stream, next to the default view alone in its collection
C20_Witness ==
    /\ pc = "done"
    /\ Len(fixture.frames) = 2
    /\ fixture.frames[1].payload # fixture.frames[2].payload
    /\ Len(app.forms) = 2
    /\ app.forms[1].id = Digits(1) /\ app.forms[2].id = Digits(2)
    /\ Len(app.views) = 1 /\ IsDefaultView(app.views[1])

\* what identifies a column: name, title, data type
ColumnSig(c) == <<c.name, c.title, c.data_type>>

\* C21: every form made from a Form-role note has exactly the fields Title
\* (text, required), Content (rich text), Created (datetime) in that order,
\* every view made from a View-role note has exactly the columns title
\* (text), created (datetime), author (text) in that order, and every
\* document has exactly three placeholder field values, whatever the payload
\* of the note.
C21_CanonicalFieldsAndColumns ==
    pc = "done"
        => /\ \A f \in NoteDerived(app.forms, Str_default_form) :
                FieldSigs(app.forms[f]) = ThreeCanonicalFields
           /\ \A v \in NoteDerived(app.views, Str_default_view) :
                [k \in 1..Len(app.views[v].columns) |-> ColumnSig(app.views[v].columns[k])]
                    = << <<"title", "Title", "text">>,
                         <<"created_date", "Created", "datetime">>,
                         <<"author", "Author", "text">> >>
           /\ \A d \in 1..Len(app.documents) :
                [k \in 1..Len(app.documents[d].fields) |-> app.documents[d].fields[k].key]
                    = <<"title", "content", "created_date">>

\* a model holding a form and a view made from two design records with
\* different payloads
C21_Witness ==
    /\ pc = "done"
    /\ Len(notes) = 2
    /\ notes[1].data # notes[2].data
    /\ NoteDerived(app.forms, Str_default_form) # {}
    /\ NoteDerived(app.views, Str_default_view) # {}

\* C22: the model's name is the database title whenever the title is not
\* empty and the file's name whenever it is empty; the model's id is always
\* the file's name.
C22_NameIsTitleOrFileName ==
    pc = "done"
        => /\ app.id = FileName
           /\ db_header.title # <<>> => app.name = db_header.title
           /\ db_header.title = <<>> => app.name = FileName

\* a model named after a title read from an info buffer of more than 128
\* bytes
C22_Witness ==
    /\ pc = "done"
    /\ BLen(fixture.info) > 128
    /\ db_header.title # <<>>
    /\ app.name = db_header.title
    /\ app.name # FileName

\* C24: within one scan the k-th accepted record has note id k: ids start at
\* 1, go up by exactly 1 per accepted record, are pairwise distinct, and a
\* rejected frame consumes no id.
C24_NoteIdsCountAcceptedRecords ==
    pc \in {"notes", "build", "done"}
        => /\ note_id = Len(notes) + 1
           /\ \A k \in 1..Len(notes) : notes[k].note_id = k
           /\ \A j, k \in 1..Len(notes) : j # k => notes[j].note_id # notes[k].note_id

\* a scan that has stopped at a frame cut short after two accepted records
C24_Witness ==
    /\ pc = "build"
    /\ fixture.tail_kind = "truncated"
    /\ Len(fixture.frames) = 2
    /\ Len(notes) = 2
    /\ notes[1].note_id = 1 /\ notes[2].note_id = 2
    /\ note_id = 3

\* the call has returned a model or raised
Terminated == pc \in {"done", "failed"}

\* every stored item of every note starts at least 5 bytes after the one
\* before it
ItemScanAdvances ==
    \A k \in 1..Len(notes) :
        LET scan == ItemScan(notes[k].data)
        IN  \A i \in 1..(Len(scan) - 1) : scan[i + 1].offset >= scan[i].offset + 5

\* the stages of parse_file still ahead
StagesLeft ==
    IF pc = "file_header" THEN 4
    ELSE IF pc = "db_header" THEN 3
    ELSE IF pc = "notes" THEN 2
    ELSE IF pc = "build" THEN 1
    ELSE 0

\* a bound on the steps a parse can still take: the unread bytes of the
\* file and the stages still ahead
StepsLeft == BLen(stream) + StagesLeft

\* C25: the parse terminates on every finite input: an iteration of the
\* record scan either stops the scan or consumes at least 17 stream bytes, an
\* iteration of an item scan either stops or advances the offset by at least
\* 5 bytes, and the read position of the stream never moves backwards; every
\* step lowers a bound that is never negative, and no stage is left exactly
\* when the call has returned or raised.
C25_ParseTerminates ==
    /\ [][/\ pos' >= pos
          /\ (pc = "notes" /\ pc' = "notes") => pos' >= pos + 17
          /\ StepsLeft' < StepsLeft]_vars
    /\ [](ItemScanAdvances /\ StepsLeft >= 0 /\ (Terminated <=> StagesLeft = 0))

\* a parse that has returned after reading the whole file, one of whose
\* records holds two items
C25_Witness ==
    /\ pc = "done"
    /\ pos = BLen(FileBytes(fixture))
    /\ \E k \in 1..Len(notes) : Len(ItemScan(notes[k].data)) = 2

\* C30: when one payload holds several scanned items with the same type
\* code, the item mapping keeps a single entry for the key "item_<type>",
\* holding the bytes of the last such item at the position of the first; the
\* mapping has as many entries as distinct type codes were scanned.
C30_LastValueAtFirstPosition ==
    \A n \in 1..Len(notes) :
        LET scan == ItemScan(notes[n].data)
            items == notes[n].items
            SameType(i) == {h \in 1..Len(scan) : scan[h].item_type = scan[i].item_type}
            First(i) == CHOOSE h \in SameType(i) : \A g \in SameType(i) : h <= g
        IN  /\ Len(items) = Cardinality({scan[i].item_type : i \in 1..Len(scan)})
            /\ \A j \in 1..Len(items) :
                \E i \in 1..Len(scan) :
                    /\ items[j].key = ItemKey(scan[i].item_type)
                    /\ items[j].value = scan[i].item_data
                    /\ \A g \in SameType(i) : g <= i
                    /\ j = Cardinality({scan[h].item_type : h \in 1..First(i)})

\* a note whose payload holds items of types 1, 2, 1: two entries, the first
\* under item_1 with the bytes of the third item
C30_Witness ==
    \E n \in 1..Len(notes) :
        LET scan == ItemScan(notes[n].data)
        IN  /\ Len(scan) = 3
            /\ scan[1].item_type = scan[3].item_type
            /\ scan[1].item_data # scan[3].item_data
            /\ Len(notes[n].items) = 2
            /\ notes[n].items[1].key = ItemKey(scan[1].item_type)
            /\ notes[n].items[1].value = scan[3].item_data

\* C29: in every returned model each document's form name names a form of
\* the same model, whether its forms come from notes or are the default form.
C29_DocumentFormIsPresent ==
    pc = "done"
        => \A d \in 1..Len(app.documents) :
            GetFormByName(app, app.documents[d].form_name) # None

\* entry k of a list is named n, by its name or by its alias
Named(entries, k, n) == entries[k].name = n \/ entries[k].alias = Alias(n)

\* value is the first entry named n, or None when no entry is
IsFirstNamed(entries, n, value) ==
    IF \E k \in 1..Len(entries) : Named(entries, k, n)
    THEN \E k \in 1..Len(entries) :
            /\ value = entries[k]
            /\ Named(entries, k, n)
            /\ \A j \in 1..(k - 1) : ~Named(entries, j, n)
    ELSE value = None

\* C26: get_form_by_name(n) returns the first form, in sequence order, whose
\* name or alias equals n, and None when no form has that name or alias;
\* get_view_by_name does the same over views; neither call changes the model.
C26_LookupReturnsFirstNamed ==
    /\ result.call = "get_form_by_name"
        => IsFirstNamed(fixture.forms, result.arg, result.value) /\ app = fixture
    /\ result.call = "get_view_by_name"
        => IsFirstNamed(fixture.views, result.arg, result.value) /\ app = fixture

\* a lookup of "B" over two forms that has returned the second, which has
\* another name and the alias "B"
C26_Witness ==
    /\ result.call = "get_form_by_name"
    /\ result.arg = <<66>>
    /\ Len(app.forms) = 2
    /\ app.forms[1].name = <<65>> /\ app.forms[1].alias = None
    /\ app.forms[2].name = <<65>> /\ app.forms[2].alias = Alias(<<66>>)
    /\ result.value = app.forms[2]

\* the positions of the documents made with a form
MadeWith(f) == {k \in 1..Len(fixture.documents) : fixture.documents[k].form_name = f}

\* C27: get_documents_by_form(f) returns exactly the documents whose
\* form_name equals f, in their original relative order, and an empty list
\* when there is none; the results for distinct form names are disjoint and
\* together cover all documents.
C27_DocumentsOfForm ==
    result.call = "get_documents_by_form"
        => LET value == result.value
               PosOf(doc) == CHOOSE k \in 1..Len(fixture.documents) : fixture.documents[k] = doc
           IN  /\ Len(value) = Cardinality(MadeWith(result.arg))
               /\ \A i \in 1..Len(value) :
                    \E k \in MadeWith(result.arg) : value[i] = fixture.documents[k]
               /\ \A i \in 1..(Len(value) - 1) : PosOf(value[i]) < PosOf(value[i + 1])
               /\ \A g \in LookupNames \ {result.arg} :
                    \A i \in 1..Len(value) :
                        \A j \in 1..Len(GetDocumentsByForm(app, g)) :
                            value[i] # GetDocumentsByForm(app, g)[j]
               /\ \A k \in 1..Len(fixture.documents) :
                    \E g \in LookupNames :
                        \E j \in 1..Len(GetDocumentsByForm(app, g)) :
                            GetDocumentsByForm(app, g)[j] = fixture.documents[k]
               /\ app = fixture

\* a lookup that has returned the two documents of a form in their order
C27_Witness ==
    /\ result.call = "get_documents_by_form"
    /\ Len(app.documents) = 2
    /\ result.value = app.documents
    /\ result.value[1].id = Digits(1) /\ result.value[2].id = Digits(2)

\* a model with every value read from the clock blanked
StripDates(a) ==
    [a EXCEPT
        !.created_date = NoDate,
        !.modified_date = NoDate,
        !.forms = [k \in 1..Len(a.forms) |-> [a.forms[k] EXCEPT !.created_date = NoDate]],
        !.views = [k \in 1..Len(a.views) |-> [a.views[k] EXCEPT !.created_date = NoDate]],
        !.documents =
            [k \in 1..Len(a.documents) |->
                [a.documents[k] EXCEPT
                    !.created_date = NoDate,
                    !.fields = [j \in 1..Len(a.documents[k].fields) |->
                                  IF a.documents[k].fields[j].key = "created_date"
                                  THEN [key |-> "created_date", value |-> NoDate]
                                  ELSE a.documents[k].fields[j]]]]]

\* the earlier calls of the run that parsed the file of the current call
\* with a new parser and returned a model
EarlierFreshParses ==
    {h \in 1..Len(history) :
        /\ history[h].fixture = fixture
        /\ history[h].fresh
        /\ history[h].app # None}

C28_ModelDependsOnFileOnly ==
    pc = "done"
        => /\ \A h \in EarlierFreshParses : StripDates(app) = StripDates(history[h].app)
           /\ Len(notes) <= Len(fixture.frames)

====
